---- MODULE Spec2Model ----
(***************************************************************************)
(* Backup catalog and recovery state machine of the PostgreSQL base-backup *)
(* tools: src/base_backup.py (PostgresBackup, main) and                    *)
(* src/base_recovery.py (PostgresRecovery, main).                          *)
(*                                                                         *)
(* The file store is modelled by three variables: `base` (the directory    *)
(* backup_root/base, a function from entry names to entry contents),       *)
(* `pgdata` (the data directory) and `server` (the database server).       *)
(* External commands (pg_ctl, pg_basebackup, psql) and file-system         *)
(* failures are inputs: each run draws how they will answer.               *)
(***************************************************************************)
EXTENDS Integers, Sequences, FiniteSets, TLC

\* ------------------------------------------------------------------ bounds
\* first clock second of the modelled window, and the number of ticks in it
ClockStart == 8
MaxTicks == 2
\* greatest number of entries of backup_root/base in an initial state
MaxEntries == 2
\* greatest --keep-backups value drawn
MaxKeep == 2
\* greatest number of lines of the configuration file in an initial state
MaxConfLines == 2
\* greatest number of direct setup_wal_archiving calls in one behaviour
MaxSetups == 2
\* greatest number of segments the archive hook writes
MaxSegments == 2
\* greatest number of direct create_backup_directory calls in one behaviour
MaxCalls == 3

\* ------------------------------------------------------- names and sorting
\* datetime.now().strftime('%Y%m%d_%H%M%S'): fixed-width, zero-padded decimal
\* fields.  The fields above the last two digits are constant in the window
\* modelled, so a name is the two decimal digits of the second.
Radix == 10

\* a timestamp written without leading zeros
strftime_NoPad(t) ==
    IF t < Radix THEN << t >> ELSE << (t \div Radix) % Radix, t % Radix >>

strftime(t) == << (t \div Radix) % Radix, t % Radix >>

Clock == ClockStart .. (ClockStart + MaxTicks)

Names == { strftime(t) : t \in Clock }

\* the empty path: None and '' are both falsy in `if not backup_path`
NoPath == << >>

\* order of two paths under sorted(): lexicographic on the characters
RECURSIVE PathLess(_, _)
PathLess(a, b) ==
    IF a = << >> THEN b # << >>
    ELSE IF b = << >> THEN FALSE
    ELSE IF Head(a) # Head(b) THEN Head(a) < Head(b)
    ELSE PathLess(Tail(a), Tail(b))

\* sorted(self.base_backup_dir.glob('*'))
RECURSIVE sorted(_)
sorted(S) ==
    IF S = {} THEN << >>
    ELSE LET m == CHOOSE x \in S : \A y \in S \ {x} : PathLess(x, y)
         IN  << m >> \o sorted(S \ {m})

Range(s) == { s[i] : i \in 1 .. Len(s) }

\* ------------------------------------------------------------ entry contents
\* An entry of backup_root/base is a plain file or a directory; a directory
\* holds (or not) base.tar.gz and pg_wal.tar.gz.  base.tar.gz is "pg" when it
\* opens and its first member's name starts with pg_, "other" when it opens
\* and its first member is named otherwise, "empty" when it opens and has no
\* member, "unreadable" when tarfile.open raises.
Complete == [kind |-> "dir", base |-> "pg", wal |-> "ok"]
NoBase == [kind |-> "dir", base |-> "absent", wal |-> "ok"]
NoWal == [kind |-> "dir", base |-> "pg", wal |-> "absent"]
EmptyDir == [kind |-> "dir", base |-> "absent", wal |-> "absent"]
Unreadable == [kind |-> "dir", base |-> "unreadable", wal |-> "ok"]
EmptyTar == [kind |-> "dir", base |-> "empty", wal |-> "ok"]
OtherTar == [kind |-> "dir", base |-> "other", wal |-> "ok"]
PlainFile == [kind |-> "file", base |-> "absent", wal |-> "absent"]

Contents == { Complete, NoBase, NoWal, EmptyDir, Unreadable, EmptyTar,
              OtherTar, PlainFile }

\* what a run of the backup tool, or an operator's stray file, leaves
ToolContents == { Complete, NoWal, EmptyDir, PlainFile }

\* the states of backup_root/base with at most MaxEntries entries
CatalogsOf(C) ==
    UNION { [S -> C] :
              S \in { T \in SUBSET Names : Cardinality(T) <= MaxEntries } }

VARIABLES
    clock,        \* the wall clock, in seconds
    base,         \* backup_root/base: entry name -> entry content
    pgdata,       \* the data directory
    server,       \* "running" or "stopped"
    \* --- recovery tool (base_recovery.py)
    rpc,          \* position of the recovery run
    req,          \* its arguments: backup_path, target_time
    backup_path,  \* the local backup_path of perform_recovery
    rtrace,       \* states executed in this run, in order
    rok,          \* states of this run that succeeded, in order
    pgdata0,      \* pgdata when this run started
    server0,      \* server when this run started
    exitCode,     \* exit code of the run, -1 while it has not exited
    \* --- base backup tool (base_backup.py)
    bpc,          \* position of the backup run
    keep_backups, \* its --keep-backups argument
    base0,        \* base when this run started
    bk,           \* what perform_base_backup did in this run
    pr,           \* what cleanup_old_backups did in this run
    bexit,        \* exit code of the run, -1 while it has not exited
    made,         \* the last two create_backup_directory calls: dir, second
    su,           \* what --setup-archiving did in this run
    \* --- WAL archiving (setup_wal_archiving, the server's archive hook)
    conf,         \* the server's configuration file, a sequence of lines
    baks,         \* the backup copies of conf that exist, oldest first
    wal,          \* backup_root/wal_archive: the segments it holds
    sw,           \* the setup_wal_archiving calls and operator edits so far
    premut,       \* the contents conf had right before each mutation
    calls         \* the create_backup_directory calls made directly

rvars == << rpc, req, backup_path, rtrace, rok, pgdata0, server0,
            exitCode >>

bvars == << bpc, keep_backups, base0, bk, pr, bexit, made, su >>

\* the configuration file and its backup copies
cvars == << conf, baks >>

\* bookkeeping of the direct calls
hvars == << sw, premut, calls >>

vars == << clock, base, pgdata, server, rvars, bvars, cvars, wal, hvars >>

\* --------------------------------------------------------- recovery: data
NoTime == ""

TargetTimes == { NoTime, "2024-01-01 00:00:00" }

OrigData ==
    [exists |-> TRUE, cluster |-> "orig", restored |-> NoPath,
     autoconf |-> << >>, signal |-> FALSE]

\* the postgresql.auto.conf a snapshot carries
SnapshotConf == [key |-> "snapshot", value |-> "conf"]

RestoreCommand ==
    [key |-> "restore_command", value |-> "cp backup_root/wal_archive/%f %p"]

PromoteAction == [key |-> "recovery_target_action", value |-> "promote"]

TargetTimeLine(t) == [key |-> "recovery_target_time", value |-> t]

\* how an external command or a file-system operation can answer
StopOutcomes == {"ok", "nonzero", "missing"}
RestoreOutcomes == {"ok", "rmtree_fail", "extract_fail"}
ConfigureOutcomes == {"ok", "write_fail", "touch_fail"}
StartOutcomes == {"ok", "nonzero", "missing"}

NoData ==
    [exists |-> FALSE, cluster |-> "none", restored |-> NoPath,
     autoconf |-> << >>, signal |-> FALSE]

NoReq == [backup_path |-> NoPath, target_time |-> NoTime]

\* ---------------------------------------------------- recovery: functions
\* find_latest_backup answering with a default name on an empty directory
find_latest_backup_Default(b) ==
    LET backups == sorted(DOMAIN b)
    IN  IF backups = << >> THEN strftime(ClockStart)
        ELSE backups[Len(backups)]

\* find_latest_backup skipping the entries that are not complete snapshots
find_latest_backup_LatestValid(b) ==
    LET backups == sorted({ n \in DOMAIN b : b[n] = Complete })
    IN  IF backups = << >> THEN NoPath ELSE backups[Len(backups)]

\* PostgresRecovery.find_latest_backup: None is the empty path
find_latest_backup(b) ==
    LET backups == sorted(DOMAIN b)
    IN  IF backups = << >> THEN NoPath ELSE backups[Len(backups)]

\* validate_backup rejecting only when both members are missing
validate_backup_BothMissing(b, path) ==
    IF path \notin DOMAIN b THEN FALSE
    ELSE LET e == b[path]
             base_files == e.kind = "dir" /\ e.base # "absent"
             wal_files == e.kind = "dir" /\ e.wal # "absent"
         IN  IF ~base_files /\ ~wal_files THEN FALSE
             ELSE IF e.base \in {"unreadable", "empty"} THEN FALSE
             ELSE e.base = "pg"

\* validate_backup without the test on the first member's name
validate_backup_AnyMember(b, path) ==
    IF path \notin DOMAIN b THEN FALSE
    ELSE LET e == b[path]
             base_files == e.kind = "dir" /\ e.base # "absent"
             wal_files == e.kind = "dir" /\ e.wal # "absent"
         IN  IF ~base_files \/ ~wal_files THEN FALSE
             ELSE e.base \notin {"unreadable", "empty"}

\* PostgresRecovery.validate_backup
validate_backup(b, path) ==
    IF path \notin DOMAIN b THEN FALSE
    ELSE LET e == b[path]
             base_files == e.kind = "dir" /\ e.base # "absent"
             wal_files == e.kind = "dir" /\ e.wal # "absent"
         IN  IF ~base_files \/ ~wal_files THEN FALSE
             ELSE IF e.base \in {"unreadable", "empty"} THEN FALSE
             ELSE e.base = "pg"

\* PostgresRecovery.stop_postgres: the server after the call
stop_postgres(srv, outcome) == IF outcome = "ok" THEN "stopped" ELSE srv

\* PostgresRecovery.start_postgres: the server after the call
start_postgres(srv, outcome) == IF outcome = "ok" THEN "running" ELSE srv

\* PostgresRecovery.restore_base_backup: [ok, pg], the return value and the
\* data directory after the call
restore_base_backup(b, pg, path, outcome) ==
    LET wiped == [exists |-> TRUE, cluster |-> "none", restored |-> NoPath,
                  autoconf |-> << >>, signal |-> FALSE]
        has(f) == /\ path \in DOMAIN b
                  /\ b[path].kind = "dir"
                  /\ b[path][f] \notin {"absent", "unreadable"}
    IN  IF pg.exists /\ outcome = "rmtree_fail"
        THEN [ok |-> FALSE, pg |-> [pg EXCEPT !.cluster = "damaged"]]
        ELSE IF ~has("base") \/ outcome = "extract_fail"
        THEN [ok |-> FALSE, pg |-> wiped]
        ELSE IF ~has("wal")
        THEN [ok |-> FALSE,
              pg |-> [wiped EXCEPT !.cluster = "restored",
                                   !.restored = path,
                                   !.autoconf = << SnapshotConf >>]]
        ELSE [ok |-> TRUE,
              pg |-> [wiped EXCEPT !.cluster = "restored",
                                   !.restored = path,
                                   !.autoconf = << SnapshotConf >>]]

\* configure_recovery that never writes the target-time line
configure_recovery_NoTargetTime(pg, target_time, outcome) ==
    LET written ==
            [pg EXCEPT !.autoconf = pg.autoconf \o
                                        << RestoreCommand, PromoteAction >>]
    IN  IF ~pg.exists \/ outcome = "write_fail"
        THEN [ok |-> FALSE, pg |-> pg]
        ELSE IF outcome = "touch_fail"
        THEN [ok |-> FALSE, pg |-> written]
        ELSE [ok |-> TRUE, pg |-> [written EXCEPT !.signal = TRUE]]

\* PostgresRecovery.configure_recovery: [ok, pg]
configure_recovery(pg, target_time, outcome) ==
    LET settings ==
            << RestoreCommand, PromoteAction >> \o
            (IF target_time # NoTime THEN << TargetTimeLine(target_time) >>
             ELSE << >>)
        written == [pg EXCEPT !.autoconf = pg.autoconf \o settings]
    IN  IF ~pg.exists \/ outcome = "write_fail"
        THEN [ok |-> FALSE, pg |-> pg]
        ELSE IF outcome = "touch_fail"
        THEN [ok |-> FALSE, pg |-> written]
        ELSE [ok |-> TRUE, pg |-> [written EXCEPT !.signal = TRUE]]

\* ------------------------------------------- recovery: perform_recovery
RecoverySteps ==
    << "SELECT_SNAPSHOT", "VALIDATE", "STOP_SERVER", "WIPE_AND_RESTORE",
       "CONFIGURE_RECOVERY", "START_SERVER" >>

\* perform_recovery with the directives written before the restore
StepAfter_ConfigureFirst(s) ==
    CASE s = "SELECT_SNAPSHOT" -> "VALIDATE"
      [] s = "VALIDATE" -> "STOP_SERVER"
      [] s = "STOP_SERVER" -> "CONFIGURE_RECOVERY"
      [] s = "CONFIGURE_RECOVERY" -> "WIPE_AND_RESTORE"
      [] s = "WIPE_AND_RESTORE" -> "START_SERVER"
      [] s = "START_SERVER" -> "DONE"

\* the order of the calls in perform_recovery
StepAfter(s) ==
    CASE s = "SELECT_SNAPSHOT" -> "VALIDATE"
      [] s = "VALIDATE" -> "STOP_SERVER"
      [] s = "STOP_SERVER" -> "WIPE_AND_RESTORE"
      [] s = "WIPE_AND_RESTORE" -> "CONFIGURE_RECOVERY"
      [] s = "CONFIGURE_RECOVERY" -> "START_SERVER"
      [] s = "START_SERVER" -> "DONE"

\* perform_recovery stopping the server before it validates
OnResult_StopBeforeValidate(s, ok) ==
    IF ~ok THEN "FAILED"
    ELSE CASE s = "SELECT_SNAPSHOT" -> "STOP_SERVER"
           [] s = "STOP_SERVER" -> "WIPE_AND_RESTORE"
           [] OTHER -> StepAfter(s)

\* perform_recovery going on when stop_postgres returned False
OnResult_IgnoreStop(s, ok) ==
    IF ok \/ s = "STOP_SERVER" THEN StepAfter(s) ELSE "FAILED"

\* perform_recovery going on when configure_recovery returned False
OnResult_IgnoreConfigure(s, ok) ==
    IF ok \/ s = "CONFIGURE_RECOVERY" THEN StepAfter(s) ELSE "FAILED"

\* `if not self.<step>(...): return False`
OnResult(s, ok) == IF ok THEN StepAfter(s) ELSE "FAILED"

\* what a state of the run leaves behind in the bookkeeping variables
Took(s, ok) ==
    /\ rtrace' = Append(rtrace, s)
    /\ rok' = IF ok THEN Append(rok, s) ELSE rok

\* base_recovery.main up to the call of perform_recovery
RecoveryMain(bp, tt) ==
    /\ rpc = "idle"
    /\ rpc' = "SELECT_SNAPSHOT"
    /\ req' = [backup_path |-> bp, target_time |-> tt]
    /\ backup_path' = bp
    /\ UNCHANGED << clock, base, pgdata, server, rtrace, rok, pgdata0,
                    server0, exitCode, bvars, cvars, wal, hvars >>

\* perform_recovery, lines 147-150
SelectSnapshot ==
    /\ rpc = "SELECT_SNAPSHOT"
    /\ LET found == IF backup_path = NoPath THEN find_latest_backup(base)
                    ELSE backup_path
           ok == found # NoPath
       IN  /\ backup_path' = found
           /\ rpc' = OnResult("SELECT_SNAPSHOT", ok)
           /\ Took("SELECT_SNAPSHOT", ok)
    /\ UNCHANGED << clock, base, pgdata, server, req, pgdata0, server0,
                    exitCode, bvars, cvars, wal, hvars >>

\* perform_recovery, lines 152-153
Validate ==
    /\ rpc = "VALIDATE"
    /\ LET ok == validate_backup(base, backup_path)
       IN  /\ rpc' = OnResult("VALIDATE", ok)
           /\ Took("VALIDATE", ok)
    /\ UNCHANGED << clock, base, pgdata, server, req, backup_path, pgdata0,
                    server0, exitCode, bvars, cvars, wal, hvars >>

\* perform_recovery, lines 155-156; FileNotFoundError is not caught
StopServer ==
    /\ rpc = "STOP_SERVER"
    /\ \E outcome \in StopOutcomes :
           /\ server' = stop_postgres(server, outcome)
           /\ rpc' = IF outcome = "missing" THEN "CRASHED"
                     ELSE OnResult("STOP_SERVER", outcome = "ok")
           /\ Took("STOP_SERVER", outcome = "ok")
    /\ UNCHANGED << clock, base, pgdata, req, backup_path, pgdata0, server0,
                    exitCode, bvars, cvars, wal, hvars >>

\* perform_recovery, lines 158-159
WipeAndRestore ==
    /\ rpc = "WIPE_AND_RESTORE"
    /\ \E outcome \in RestoreOutcomes :
           LET r == restore_base_backup(base, pgdata, backup_path, outcome)
           IN  /\ pgdata' = r.pg
               /\ rpc' = OnResult("WIPE_AND_RESTORE", r.ok)
               /\ Took("WIPE_AND_RESTORE", r.ok)
    /\ UNCHANGED << clock, base, server, req, backup_path, pgdata0, server0,
                    exitCode, bvars, cvars, wal, hvars >>

\* perform_recovery, lines 161-162
ConfigureRecovery ==
    /\ rpc = "CONFIGURE_RECOVERY"
    /\ \E outcome \in ConfigureOutcomes :
           LET r == configure_recovery(pgdata, req.target_time, outcome)
           IN  /\ pgdata' = r.pg
               /\ rpc' = OnResult("CONFIGURE_RECOVERY", r.ok)
               /\ Took("CONFIGURE_RECOVERY", r.ok)
    /\ UNCHANGED << clock, base, server, req, backup_path, pgdata0, server0,
                    exitCode, bvars, cvars, wal, hvars >>

\* perform_recovery, lines 164-169; FileNotFoundError is not caught
StartServer ==
    /\ rpc = "START_SERVER"
    /\ \E outcome \in StartOutcomes :
           /\ server' = start_postgres(server, outcome)
           /\ rpc' = IF outcome = "missing" THEN "CRASHED"
                     ELSE OnResult("START_SERVER", outcome = "ok")
           /\ Took("START_SERVER", outcome = "ok")
    /\ UNCHANGED << clock, base, pgdata, req, backup_path, pgdata0, server0,
                    exitCode, bvars, cvars, wal, hvars >>

\* the exit code main gives for the way perform_recovery ended
RecoveryExitCode(end) == IF end = "DONE" THEN 0 ELSE 1

\* base_recovery.main, lines 197-198 (an uncaught exception exits with 1)
RecoveryExit ==
    /\ rpc \in {"DONE", "FAILED", "CRASHED"}
    /\ exitCode' = RecoveryExitCode(rpc)
    /\ UNCHANGED << clock, base, pgdata, server, rpc, req, backup_path,
                    rtrace, rok, pgdata0, server0, bvars, cvars, wal, hvars >>
    /\ exitCode = -1

RecoveryStep ==
    \/ SelectSnapshot
    \/ Validate
    \/ StopServer
    \/ WipeAndRestore
    \/ ConfigureRecovery
    \/ StartServer
    \/ RecoveryExit

\* ------------------------------------------------ base backup: functions
NoBk == [preflight |-> "none", dir |-> NoPath, tool |-> "not_run",
         result |-> "none"]

NoPr == [before |-> << >>, to_delete |-> << >>, attempted |-> << >>,
         result |-> "none"]

\* how pg_basebackup can end (line 153): its exit, and what it leaves in a
\* directory it was given empty
ToolRuns ==
    { [exit |-> "zero", leaves |-> Complete],
      [exit |-> "nonzero", leaves |-> EmptyDir],
      [exit |-> "nonzero", leaves |-> NoWal],
      [exit |-> "exception", leaves |-> EmptyDir] }

\* how the psql status query can end (lines 48-58)
ConnOutcomes == {"ok", "nonzero", "exception"}

\* PostgresBackup.check_pg_basebackup_exists: found is FALSE when running
\* pg_basebackup raises FileNotFoundError; the exit status is not looked at
check_pg_basebackup_exists(found) == found

\* PostgresBackup.validate_postgres_connection
validate_postgres_connection(conn) == conn = "ok"

\* PostgresBackup.create_backup_directory: mkdir(parents=True, exist_ok=True)
\* returns silently on an existing directory and raises FileExistsError on
\* an existing plain file
create_backup_directory(b, now) ==
    LET timestamp == strftime(now)
    IN  IF timestamp \in DOMAIN b
        THEN [raised |-> b[timestamp].kind # "dir", dir |-> timestamp,
              base |-> b]
        ELSE [raised |-> FALSE, dir |-> timestamp,
              base |-> [n \in DOMAIN b \cup {timestamp} |->
                          IF n = timestamp THEN EmptyDir ELSE b[n]]]

\* the snapshot directory after pg_basebackup ran on it: a directory that
\* already held a snapshot is left as it is by a failing run
AfterTool(b, dir, existed, run) ==
    IF run.exit # "zero" /\ existed /\ b[dir] # EmptyDir THEN b
    ELSE [b EXCEPT ![dir] = run.leaves]

\* perform_base_backup creating the directory before the status query
perform_base_backup_MkdirFirst(b, now, found, conn, run) ==
    IF ~check_pg_basebackup_exists(found)
    THEN [NoBk EXCEPT !.preflight = "no_tool", !.result = "failed"]
           @@ [base |-> b]
    ELSE LET d == create_backup_directory(b, now)
         IN  IF d.raised
             THEN [NoBk EXCEPT !.preflight = "ok", !.result = "raised"]
                    @@ [base |-> b]
             ELSE IF ~validate_postgres_connection(conn)
             THEN [NoBk EXCEPT !.preflight = "no_conn", !.result = "failed"]
                    @@ [base |-> d.base]
             ELSE [preflight |-> "ok", dir |-> d.dir,
                   tool |-> run.exit,
                   result |-> IF run.exit = "zero" THEN "ok" ELSE "failed",
                   base |-> AfterTool(d.base, d.dir, d.dir \in DOMAIN b,
                                      run)]

\* perform_base_backup removing the snapshot directory of a failed run
perform_base_backup_RemoveFailed(b, now, found, conn, run) ==
    IF ~check_pg_basebackup_exists(found)
    THEN [NoBk EXCEPT !.preflight = "no_tool", !.result = "failed"]
           @@ [base |-> b]
    ELSE IF ~validate_postgres_connection(conn)
    THEN [NoBk EXCEPT !.preflight = "no_conn", !.result = "failed"]
           @@ [base |-> b]
    ELSE LET d == create_backup_directory(b, now)
         IN  IF d.raised
             THEN [NoBk EXCEPT !.preflight = "ok", !.result = "raised"]
                    @@ [base |-> b]
             ELSE [preflight |-> "ok", dir |-> d.dir,
                   tool |-> run.exit,
                   result |-> IF run.exit = "zero" THEN "ok" ELSE "failed",
                   base |->
                     IF run.exit = "zero"
                     THEN AfterTool(d.base, d.dir, d.dir \in DOMAIN b, run)
                     ELSE [n \in DOMAIN d.base \ {d.dir} |-> d.base[n]]]

\* PostgresBackup.perform_base_backup: what it did, and base after the call
perform_base_backup(b, now, found, conn, run) ==
    IF ~check_pg_basebackup_exists(found)
    THEN [NoBk EXCEPT !.preflight = "no_tool", !.result = "failed"]
           @@ [base |-> b]
    ELSE IF ~validate_postgres_connection(conn)
    THEN [NoBk EXCEPT !.preflight = "no_conn", !.result = "failed"]
           @@ [base |-> b]
    ELSE LET d == create_backup_directory(b, now)
         IN  IF d.raised
             THEN [NoBk EXCEPT !.preflight = "ok", !.result = "raised"]
                    @@ [base |-> b]
             ELSE [preflight |-> "ok", dir |-> d.dir,
                   tool |-> run.exit,
                   result |-> IF run.exit = "zero" THEN "ok" ELSE "failed",
                   base |-> AfterTool(d.base, d.dir, d.dir \in DOMAIN b,
                                      run)]

\* Python's s[:-k] for k >= 0
SliceBefore(s, k) ==
    IF k = 0 \/ k >= Len(s) THEN << >> ELSE SubSeq(s, 1, Len(s) - k)

\* the loop of cleanup_old_backups: entries are removed in order until the
\* removal of one raises; `bad` are the entries whose removal raises
RECURSIVE RemoveLoop(_, _, _, _)
RemoveLoop(b, todo, bad, attempted) ==
    IF todo = << >>
    THEN [base |-> b, attempted |-> attempted, result |-> "ok"]
    ELSE IF Head(todo) \in bad
    THEN [base |-> b, attempted |-> Append(attempted, Head(todo)),
          result |-> "failed"]
    ELSE RemoveLoop([n \in DOMAIN b \ {Head(todo)} |-> b[n]], Tail(todo),
                    bad, Append(attempted, Head(todo)))

\* cleanup_old_backups deleting the newest entries instead of the oldest
cleanup_old_backups_KeepOldest(b, keep_count, bad) ==
    LET backups == sorted(DOMAIN b)
        to_delete == IF Len(backups) > keep_count
                     THEN SubSeq(backups, keep_count + 1, Len(backups))
                     ELSE << >>
    IN  RemoveLoop(b, to_delete, bad, << >>)
          @@ [before |-> b, to_delete |-> to_delete]

\* PostgresBackup.cleanup_old_backups
cleanup_old_backups(b, keep_count, bad) ==
    LET backups == sorted(DOMAIN b)
        to_delete == IF Len(backups) > keep_count
                     THEN SliceBefore(backups, keep_count)
                     ELSE << >>
    IN  RemoveLoop(b, to_delete, bad, << >>)
          @@ [before |-> b, to_delete |-> to_delete]

\* ------------------------------------------------ WAL archiving: functions
\* A line of the configuration file: a [section] header, a comment or a
\* `key = value` setting.  The key of a comment is the setting name the
\* comment spells out ("other" when it spells none of the four).
Section == [kind |-> "section", key |-> "", value |-> ""]

Comment(k) == [kind |-> "comment", key |-> k, value |-> ""]

Setting(k, v) == [kind |-> "setting", key |-> k, value |-> v]

\* the dictionary `updates`, in its order
Updates ==
    << Setting("wal_level", "'replica'"),
       Setting("archive_mode", "'on'"),
       Setting("archive_command", "'cp %p backup_root/wal_archive/%f'"),
       Setting("max_wal_senders", "'3'") >>

\* the lines the initial files are made of
InitLines ==
    { Section, Comment("other"), Setting("other", "x"),
      Comment("wal_level"), Setting("wal_level", "'replica'"),
      Setting("wal_level", "minimal"),
      Comment("archive_mode"), Setting("archive_mode", "'on'"),
      Setting("archive_mode", "off") }

ConfFiles == UNION { [1 .. n -> InitLines] : n \in 0 .. MaxConfLines }

\* what an operator may put in place of the file between two runs
EditedFiles == { << >>, << Section >>, << Comment("wal_level") >> }

\* `key in content`: the name occurs somewhere in the text of the file
Mentions(c, k) ==
    \E i \in 1 .. Len(c) : c[i].kind \in {"comment", "setting"} /\ c[i].key = k

\* config.read(postgresql_conf): TRUE when configparser parses the file.  It
\* raises MissingSectionHeaderError on a setting above the first section
\* header, DuplicateSectionError on a repeated header and
\* DuplicateOptionError on a repeated option.
config_read(c) ==
    LET sections == { i \in 1 .. Len(c) : c[i].kind = "section" }
        settings == { i \in 1 .. Len(c) : c[i].kind = "setting" }
    IN  /\ \A i \in settings : \E j \in sections : j < i
        /\ Cardinality(sections) <= 1
        /\ \A i, j \in settings :
               (i # j /\ c[i].key # "other") => c[i].key # c[j].key

\* the loop over updates.items(), lines 93-96
RECURSIVE AppendMissing(_, _)
AppendMissing(content, todo) ==
    IF todo = << >> THEN content
    ELSE AppendMissing(IF ~Mentions(content, Head(todo).key)
                       THEN Append(content, Head(todo))
                       ELSE content,
                       Tail(todo))

PsqlOutcomes == {"ok", "fail"}

\* a setup that removes the archive directory and creates it anew
setup_wal_archiving_RecreateArchive(c, copies, w, psql) ==
    LET content == AppendMissing(c, Updates)
    IN  IF psql # "ok" \/ ~config_read(c)
        THEN [ok |-> FALSE, modified |-> FALSE, conf |-> c, baks |-> copies,
              wal |-> << >>]
        ELSE [ok |-> TRUE, modified |-> content # c, conf |-> content,
              baks |-> IF content # c THEN << c >> ELSE copies,
              wal |-> << >>]

\* PostgresBackup.setup_wal_archiving: psql is how `SHOW config_file`
\* answers; a failing psql leaves an empty path and open('') raises
setup_wal_archiving(c, copies, w, psql) ==
    LET content == AppendMissing(c, Updates)
        modified == content # c
    IN  IF psql # "ok" \/ ~config_read(c)
        THEN [ok |-> FALSE, modified |-> FALSE, conf |-> c, baks |-> copies,
              wal |-> w]
        ELSE IF modified
        THEN [ok |-> TRUE, modified |-> TRUE, conf |-> content,
              baks |-> << c >>, wal |-> w]
        ELSE [ok |-> TRUE, modified |-> FALSE, conf |-> c, baks |-> copies,
              wal |-> w]

\* -------------------------------------------------- base backup: main
KeepCounts == 0 .. MaxKeep

Tick ==
    /\ clock < ClockStart + MaxTicks
    /\ clock' = clock + 1
    /\ UNCHANGED << base, pgdata, server, rvars, bvars, cvars, wal, hvars >>

\* base_backup.main up to line 211
BackupMain(k, setup_archiving) ==
    /\ bpc \in {"idle", "exited"}
    /\ bpc' = IF setup_archiving THEN "setup" ELSE "backup"
    /\ keep_backups' = k
    /\ base0' = base
    /\ bk' = NoBk
    /\ pr' = NoPr
    /\ bexit' = -1
    /\ su' = "none"
    /\ UNCHANGED << clock, base, pgdata, server, rvars, made, cvars, wal,
                    hvars >>

\* a main that goes on to the backup after a failed setup
SetupArchiving_GoOn ==
    /\ bpc = "setup"
    /\ \E psql \in PsqlOutcomes :
           LET r == setup_wal_archiving(conf, baks, wal, psql)
           IN  /\ conf' = r.conf
               /\ baks' = r.baks
               /\ wal' = r.wal
               /\ su' = IF r.ok THEN "ok" ELSE "failed"
    /\ bpc' = "backup"
    /\ UNCHANGED << clock, base, pgdata, server, rvars, keep_backups, base0,
                    bk, pr, bexit, made, hvars >>

\* base_backup.main, lines 211-215
SetupArchiving ==
    /\ bpc = "setup"
    /\ \E psql \in PsqlOutcomes :
           LET r == setup_wal_archiving(conf, baks, wal, psql)
           IN  /\ conf' = r.conf
               /\ baks' = r.baks
               /\ wal' = r.wal
               /\ su' = IF r.ok THEN "ok" ELSE "failed"
               /\ bpc' = IF r.ok THEN "backup" ELSE "exited"
               /\ bexit' = IF r.ok THEN -1 ELSE 1
    /\ UNCHANGED << clock, base, pgdata, server, rvars, keep_backups, base0,
                    bk, pr, made, hvars >>

\* the create_backup_directory calls remembered
Remember(log, dir, at) ==
    LET all == Append(log, [dir |-> dir, at |-> at])
    IN  IF Len(all) > 2 THEN Tail(all) ELSE all

\* base_backup.main, lines 217 and 219-220
PerformBaseBackup ==
    /\ bpc = "backup"
    /\ \E found \in BOOLEAN, conn \in ConnOutcomes, run \in ToolRuns :
           LET r == perform_base_backup(base, clock, found, conn, run)
           IN  /\ base' = r.base
               /\ bk' = [preflight |-> r.preflight, dir |-> r.dir,
                         tool |-> r.tool, result |-> r.result]
               /\ made' = IF r.dir # NoPath THEN Remember(made, r.dir, clock)
                          ELSE made
               /\ bpc' = IF r.result = "ok" THEN "cleanup" ELSE "exited"
               /\ bexit' = IF r.result = "ok" THEN -1 ELSE 1
    /\ UNCHANGED << clock, pgdata, server, rvars, keep_backups, base0, pr,
                    su, cvars, wal, hvars >>

\* base_backup.main, line 218: the return value is not looked at
CleanupOldBackups ==
    /\ bpc = "cleanup"
    /\ \E bad \in SUBSET DOMAIN base :
           LET r == cleanup_old_backups(base, keep_backups, bad)
           IN  /\ base' = r.base
               /\ pr' = [before |-> r.before, to_delete |-> r.to_delete,
                         attempted |-> r.attempted, result |-> r.result]
    /\ bpc' = "exited"
    /\ bexit' = 0
    /\ UNCHANGED << clock, pgdata, server, rvars, keep_backups, base0, bk,
                    made, su, cvars, wal, hvars >>

BackupInit ==
    /\ bpc = "idle"
    /\ keep_backups = 0
    /\ base0 = base
    /\ bk = NoBk
    /\ pr = NoPr
    /\ bexit = -1
    /\ made = << >>
    /\ su = "none"

\* no direct call made yet, the archive empty
QuietInit ==
    /\ baks = << >>
    /\ wal = << >>
    /\ sw = << >>
    /\ premut = {}
    /\ calls = << >>

RecoveryIdle ==
    /\ rpc = "idle"
    /\ req = NoReq
    /\ backup_path = NoPath
    /\ rtrace = << >>
    /\ rok = << >>
    /\ exitCode = -1

Init ==
    /\ clock = ClockStart
    /\ base \in CatalogsOf(ToolContents)
    /\ pgdata = OrigData
    /\ server = "running"
    /\ pgdata0 = OrigData
    /\ server0 = "running"
    /\ RecoveryIdle
    /\ BackupInit
    /\ conf = << >>
    /\ QuietInit

Next ==
    \/ Tick
    \/ \E k \in KeepCounts, sa \in BOOLEAN : BackupMain(k, sa)
    \/ SetupArchiving
    \/ PerformBaseBackup
    \/ CleanupOldBackups

Spec == Init /\ [][Next]_vars

\* ---------------------------------------------------- base backup: claims
Min(a, b) == IF a <= b THEN a ELSE b

\* C6: when cleanup_old_backups returns True for keep_count k >= 1 on a
\* catalog of m entries, exactly min(k, m) entries remain, each of them
\* unchanged and greater (in name) than every removed one; a catalog with
\* m <= k is left as it was.
C6_PruneKeepsNewest ==
    (pr.result = "ok" /\ keep_backups >= 1)
    => LET before == DOMAIN pr.before
           kept == DOMAIN base
           m == Cardinality(before)
       IN  /\ kept \subseteq before
           /\ Cardinality(kept) = Min(keep_backups, m)
           /\ \A x \in kept : base[x] = pr.before[x]
           /\ \A x \in kept, y \in before \ kept : PathLess(y, x)
           /\ Range(pr.to_delete) = before \ kept
           /\ m <= keep_backups => base = pr.before

C6_Witness ==
    /\ pr.result = "ok"
    /\ keep_backups >= 1
    /\ Cardinality(DOMAIN pr.before) >= keep_backups + 2
    /\ Cardinality(DOMAIN base) = keep_backups

\* C7: pruning is best-effort: once cleanup_old_backups has run, the removal
\* of every entry it selected has been attempted, also after a removal that
\* failed.
C7_PruneBestEffort ==
    pr.result # "none" => Range(pr.attempted) = Range(pr.to_delete)

\* C8: two create_backup_directory calls that return within the same clock
\* second return two distinct directories (the alternative, a Conflict
\* error for the second call, would leave no second return at all).
C8_NoSilentReuse ==
    \A i, j \in 1 .. Len(made) :
        (i < j /\ made[i].at = made[j].at) => made[i].dir # made[j].dir

\* C9: when a preflight check of perform_base_backup fails, no snapshot
\* directory is created, pg_basebackup is not run for a backup, base is as
\* the run found it, and the run exits with 1 without pruning.
C9_PreflightAbortsClean ==
    bk.preflight \in {"no_tool", "no_conn"}
    => /\ base = base0
       /\ bk.dir = NoPath
       /\ bk.tool = "not_run"
       /\ bk.result = "failed"
       /\ pr = NoPr
       /\ bpc = "exited"
       /\ bexit = 1

C9_Witness ==
    /\ bk.preflight = "no_conn"
    /\ bpc = "exited"
    /\ strftime(clock) \notin DOMAIN base
    /\ base # << >>

\* C10: perform_base_backup removes no entry of base, and when pg_basebackup
\* fails the snapshot directory just created stays in base, pruning is not
\* invoked and the run exits with 1: every entry the run found is still
\* there.
C10_BackupNeverDeletes ==
    /\ (bk.result # "none" /\ pr.result = "none")
         => DOMAIN base0 \subseteq DOMAIN base
    /\ bk.result \in {"failed", "raised"}
         => pr = NoPr /\ bpc = "exited" /\ bexit = 1
    /\ bk.tool \in {"nonzero", "exception"}
         => bk.result = "failed" /\ bk.dir \in DOMAIN base

C10_Witness ==
    /\ bk.tool = "nonzero"
    /\ bk.dir \in DOMAIN base
    /\ bk.dir \notin DOMAIN base0
    /\ base0 # << >>
    /\ bexit = 1

\* C11: in a run of the backup tool whose perform_base_backup succeeded,
\* cleanup_old_backups with keep_count >= 1 does not remove the snapshot
\* directory that run created, whatever base held before.
C11_PruneKeepsNewSnapshot ==
    (bk.result = "ok" /\ pr.result # "none" /\ keep_backups >= 1)
    => bk.dir \in DOMAIN base

\* C19 as stated: the run exits 1 exactly when the setup asked for failed,
\* a preflight check failed or pg_basebackup failed, and 0 otherwise.
C19_ExitOneExactly ==
    bpc = "exited"
    => /\ bexit \in {0, 1}
       /\ bexit = 1 <=> \/ su = "failed"
                        \/ bk.preflight \in {"no_tool", "no_conn"}
                        \/ bk.tool \in {"nonzero", "exception"}

\* C19: the run exits 1 exactly when the setup asked for failed, a preflight
\* check failed, creating the snapshot directory raised or pg_basebackup
\* failed, and 0 otherwise; after a failed setup no backup is attempted, and
\* a failing cleanup_old_backups leaves the exit code 0.
C19_ExitCode ==
    bpc = "exited"
    => /\ bexit \in {0, 1}
       /\ bexit = 1 <=> \/ su = "failed"
                        \/ bk.preflight \in {"no_tool", "no_conn"}
                        \/ bk.result = "raised"
                        \/ bk.tool \in {"nonzero", "exception"}
       /\ su = "failed" => (bk = NoBk /\ pr = NoPr /\ base = base0)
       /\ pr.result = "failed" => bexit = 0

C19_Witness ==
    /\ bpc = "exited"
    /\ su = "ok"
    /\ bk.preflight = "ok"
    /\ bk.result = "raised"
    /\ bk.tool = "not_run"
    /\ bexit = 1

\* the data directory and the server a recovery run can find
RecStarts ==
    { << OrigData, "running" >>, << OrigData, "stopped" >>,
      << NoData, "stopped" >> }

RecInit ==
    /\ clock = ClockStart
    /\ base \in CatalogsOf(Contents)
    /\ \E st \in RecStarts :
           /\ pgdata = st[1]
           /\ server = st[2]
           /\ pgdata0 = st[1]
           /\ server0 = st[2]
    /\ RecoveryIdle
    /\ BackupInit
    /\ conf = << >>
    /\ QuietInit

RecNext ==
    \/ \E bp \in Names \cup {NoPath}, tt \in TargetTimes :
           RecoveryMain(bp, tt)
    \/ RecoveryStep

RecSpec == RecInit /\ [][RecNext]_vars

RecFairSpec == RecSpec /\ WF_vars(RecoveryStep)

\* ----------------------------------------------------- recovery: claims
Executed(s) == s \in Range(rtrace)

Succeeded(s) == s \in Range(rok)

\* position of state s in the run, 0 when it was not executed
Position(s) ==
    IF Executed(s) THEN CHOOSE i \in 1 .. Len(rtrace) : rtrace[i] = s ELSE 0

\* C1: the data directory is wiped (restore_base_backup is entered, or the
\* data directory differs from what the run found) only if validate_backup
\* was executed earlier in the same run and passed for the chosen snapshot.
C1_WipeOnlyAfterValidate ==
    (Executed("WIPE_AND_RESTORE") \/ rpc = "WIPE_AND_RESTORE"
       \/ pgdata # pgdata0)
    => /\ Succeeded("VALIDATE")
       /\ validate_backup(base, backup_path)
       /\ Executed("WIPE_AND_RESTORE")
            => Position("VALIDATE") < Position("WIPE_AND_RESTORE")

C1_Witness ==
    /\ Executed("WIPE_AND_RESTORE")
    /\ pgdata # pgdata0
    /\ pgdata0.cluster = "orig"

\* the chosen snapshot is a directory without base.tar.gz or pg_wal.tar.gz
MissingMember ==
    /\ backup_path \in DOMAIN base
    /\ base[backup_path].kind = "dir"
    /\ base[backup_path].base = "absent" \/ base[backup_path].wal = "absent"

\* C2: when the chosen snapshot directory lacks base.tar.gz or
\* pg_wal.tar.gz, validation rejects it, the run fails right after VALIDATE
\* with exit code 1, and the data directory and the server are as the run
\* found them.
C2_MissingMemberRejected ==
    (Succeeded("SELECT_SNAPSHOT") /\ MissingMember)
    => /\ ~validate_backup(base, backup_path)
       /\ rpc \in {"VALIDATE", "FAILED"}
       /\ rpc = "FAILED"
            => rtrace = << "SELECT_SNAPSHOT", "VALIDATE" >>
       /\ pgdata = pgdata0
       /\ server = server0
       /\ exitCode \in {-1, 1}

C2_Witness ==
    /\ MissingMember
    /\ rpc = "FAILED"
    /\ rtrace = << "SELECT_SNAPSHOT", "VALIDATE" >>
    /\ exitCode = 1
    /\ pgdata0.cluster = "orig"

\* C3: when pg_ctl stop exits non-zero the run fails in STOP_SERVER: the
\* data directory is as the run found it and no later state (wipe, recovery
\* directives, server start) is executed.
C3_StopFailureLeavesData ==
    (Executed("STOP_SERVER") /\ ~Succeeded("STOP_SERVER")
       /\ rpc # "CRASHED")
    => /\ rpc = "FAILED"
       /\ rtrace = << "SELECT_SNAPSHOT", "VALIDATE", "STOP_SERVER" >>
       /\ pgdata = pgdata0
       /\ server = server0
       /\ exitCode \in {-1, 1}

C3_Witness ==
    /\ rpc = "FAILED"
    /\ rtrace = << "SELECT_SNAPSHOT", "VALIDATE", "STOP_SERVER" >>
    /\ exitCode = 1
    /\ pgdata0.cluster = "orig"

\* the states executed so far are the first states of the fixed order
C4_Order ==
    /\ Len(rtrace) <= Len(RecoverySteps)
    /\ rtrace = SubSeq(RecoverySteps, 1, Len(rtrace))

\* success is reported exactly when all six states succeeded
C4_SuccessIff ==
    /\ rpc = "DONE" <=> rok = RecoverySteps
    /\ exitCode = 0 => rok = RecoverySteps
    /\ exitCode = 1 => rok # RecoverySteps

\* C4: a run executes SELECT_SNAPSHOT, VALIDATE, STOP_SERVER,
\* WIPE_AND_RESTORE, CONFIGURE_RECOVERY, START_SERVER in this order, each at
\* most once; it ends in DONE with exit code 0 exactly when all six
\* succeeded; every run ends, and a run whose six states succeeded ends
\* with exit code 0.
C4_LinearOrderAndSuccess ==
    /\ [](C4_Order /\ C4_SuccessIff)
    /\ (rpc = "SELECT_SNAPSHOT") ~> (exitCode # -1)
    /\ (rok = RecoverySteps) ~> (rpc = "DONE" /\ exitCode = 0)

C4_Witness ==
    /\ rpc = "DONE"
    /\ exitCode = 0
    /\ rtrace = RecoverySteps
    /\ rok = RecoverySteps

Ended == rpc \in {"FAILED", "CRASHED"}

\* a state that did not succeed is the last one executed, no state is
\* executed twice, and the run is then over
C5_FailFast ==
    /\ Cardinality(Range(rtrace)) = Len(rtrace)
    /\ \A i \in 1 .. Len(rtrace) :
           ~Succeeded(rtrace[i]) => i = Len(rtrace) /\ Ended
    /\ (Executed("CONFIGURE_RECOVERY") /\ ~Succeeded("CONFIGURE_RECOVERY"))
         => ~Executed("START_SERVER")

\* C5: FAILED is absorbing: a state that fails is the last state of the
\* run, nothing is retried, and after the failure the run changes neither
\* the data directory nor the server; when CONFIGURE_RECOVERY fails,
\* pg_ctl start is not invoked.
C5_FailedAbsorbing ==
    /\ []C5_FailFast
    /\ [][Ended => /\ rpc' = rpc
                   /\ rtrace' = rtrace
                   /\ pgdata' = pgdata
                   /\ server' = server]_vars

C5_Witness ==
    /\ rpc = "FAILED"
    /\ rtrace = SubSeq(RecoverySteps, 1, 5)
    /\ rok = SubSeq(RecoverySteps, 1, 4)
    /\ exitCode = 1

\* C16: once CONFIGURE_RECOVERY has succeeded, postgresql.auto.conf is what
\* the snapshot carried followed by the restore command, the promote
\* action and, exactly when a target time was requested, the target-time
\* line with the requested value; recovery.signal exists.
C16_ConfigureWrites ==
    Succeeded("CONFIGURE_RECOVERY")
    => /\ Len(pgdata.autoconf) >= 3
       /\ pgdata.autoconf[1] = SnapshotConf
       /\ pgdata.autoconf[2] = RestoreCommand
       /\ pgdata.autoconf[3] = PromoteAction
       /\ \A t \in TargetTimes \ {NoTime} :
              TargetTimeLine(t) \in Range(pgdata.autoconf)
                  <=> req.target_time = t
       /\ Len(pgdata.autoconf) = IF req.target_time = NoTime THEN 3 ELSE 4
       /\ pgdata.signal

C16_Witness ==
    /\ Succeeded("CONFIGURE_RECOVERY")
    /\ req.target_time # NoTime
    /\ pgdata.autoconf[4] = TargetTimeLine(req.target_time)
    /\ pgdata.signal

\* the snapshot asked for does not exist
LatestOfNone == req.backup_path = NoPath /\ DOMAIN base = {}

ExplicitMissing ==
    req.backup_path # NoPath /\ req.backup_path \notin DOMAIN base

Acceptable ==
    /\ backup_path \in DOMAIN base
    /\ base[backup_path].kind = "dir"
    /\ base[backup_path].wal # "absent"
    /\ base[backup_path].base = "pg"

\* C20: VALIDATE succeeds exactly on such an entry; on any other the run
\* fails right after VALIDATE with a returned False, no exception escapes.
C20_ValidateAcceptsIff ==
    Executed("VALIDATE")
    => /\ Succeeded("VALIDATE") <=> Acceptable
       /\ ~Acceptable
          => /\ rpc = "FAILED"
             /\ rtrace = << "SELECT_SNAPSHOT", "VALIDATE" >>

C20_Witness ==
    /\ Executed("VALIDATE")
    /\ ~Succeeded("VALIDATE")
    /\ backup_path \in DOMAIN base
    /\ base[backup_path].wal # "absent"
    /\ base[backup_path].base \in {"unreadable", "empty", "other"}
    /\ \E n \in DOMAIN base : base[n] = Complete
    /\ exitCode = 1

\* the run asked for the latest snapshot
LatestAsked == req.backup_path = NoPath

\* the entry of base with the greatest name
Greatest(n) ==
    /\ n \in DOMAIN base
    /\ \A m \in DOMAIN base \ {n} : PathLess(m, n)

\* C21: a run asking for the latest snapshot selects the entry of base with
\* the greatest name, whatever that entry holds, and keeps to it: when the
\* entry fails VALIDATE the run fails right there, with nothing restored
\* from an older snapshot.
C21_LatestNoFallback ==
    /\ (LatestAsked /\ Succeeded("SELECT_SNAPSHOT")) => Greatest(backup_path)
    /\ (LatestAsked /\ Executed("VALIDATE") /\ ~Acceptable)
       => /\ rpc = "FAILED"
          /\ rtrace = << "SELECT_SNAPSHOT", "VALIDATE" >>
          /\ rok = << "SELECT_SNAPSHOT" >>
          /\ pgdata = pgdata0
          /\ server = server0
          /\ exitCode \in {-1, 1}

C21_Witness ==
    /\ LatestAsked
    /\ Greatest(backup_path)
    /\ base[backup_path] \in {EmptyDir, NoWal}
    /\ \E n \in DOMAIN base : n # backup_path /\ base[n] = Complete
    /\ rtrace = << "SELECT_SNAPSHOT", "VALIDATE" >>
    /\ rpc = "FAILED"
    /\ exitCode = 1

\* ---------------------------------------------------- WAL archiving: runs
SetupRuns(log) == { i \in 1 .. Len(log) : log[i].ev = "setup" }

\* one call of PostgresBackup.setup_wal_archiving
EnableArchiving ==
    /\ bpc = "idle"
    /\ rpc = "idle"
    /\ Cardinality(SetupRuns(sw)) < MaxSetups
    /\ \E psql \in PsqlOutcomes :
           LET r == setup_wal_archiving(conf, baks, wal, psql)
           IN  /\ conf' = r.conf
               /\ baks' = r.baks
               /\ wal' = r.wal
               /\ sw' = Append(sw, [ev |-> "setup", psql |-> psql,
                                    ok |-> r.ok, modified |-> r.modified,
                                    before |-> conf, after |-> r.conf,
                                    baks0 |-> baks, baks |-> r.baks])
               /\ premut' = IF r.conf # conf THEN premut \cup {conf}
                            ELSE premut
    /\ UNCHANGED << clock, base, pgdata, server, rvars, bvars, calls >>

\* the operator replaces the configuration file between two runs
OperatorEdit(f) ==
    /\ bpc = "idle"
    /\ rpc = "idle"
    /\ sw # << >>
    /\ sw[Len(sw)].ev = "setup"
    /\ Cardinality(SetupRuns(sw)) < MaxSetups
    /\ f # conf
    /\ conf' = f
    /\ sw' = Append(sw, [ev |-> "edit", psql |-> "ok", ok |-> TRUE,
                         modified |-> FALSE, before |-> conf, after |-> f,
                         baks0 |-> baks, baks |-> baks])
    /\ UNCHANGED << clock, base, pgdata, server, rvars, bvars, baks, wal,
                    premut, calls >>

ConfInit ==
    /\ clock = ClockStart
    /\ base = [n \in {} |-> EmptyDir]
    /\ pgdata = OrigData
    /\ server = "running"
    /\ pgdata0 = OrigData
    /\ server0 = "running"
    /\ RecoveryIdle
    /\ BackupInit
    /\ conf \in ConfFiles
    /\ QuietInit

ConfNext ==
    \/ EnableArchiving
    \/ \E f \in EditedFiles : OperatorEdit(f)

ConfSpec == ConfInit /\ [][ConfNext]_vars

\* the lines a setup_wal_archiving call added at the end of the file
Appended(e) == SubSeq(e.after, Len(e.before) + 1, Len(e.after))

\* C12: a setup_wal_archiving call made right after a successful one (the
\* server answering both) succeeds without modifying anything: the
\* configuration file and its backup copies stay as the first call left them.
C12_SetupIdempotent ==
    \A i \in 1 .. Len(sw) - 1 :
        (/\ sw[i].ev = "setup" /\ sw[i + 1].ev = "setup"
         /\ sw[i].ok /\ sw[i + 1].psql = "ok")
        => /\ sw[i + 1].ok
           /\ ~sw[i + 1].modified
           /\ sw[i + 1].after = sw[i].after
           /\ sw[i + 1].baks = sw[i].baks

\* C13: a successful setup_wal_archiving call appends each of the four
\* settings exactly when the file does not already hold that setting with
\* its required value, so the file holds all four afterwards.
C13_AppendsExactlyMissing ==
    \A i \in SetupRuns(sw) :
        sw[i].ok =>
            \A j \in 1 .. Len(Updates) :
                /\ Updates[j] \in Range(Appended(sw[i]))
                       <=> Updates[j] \notin Range(sw[i].before)
                /\ Updates[j] \in Range(sw[i].after)

\* C14: every content the configuration file had right before a
\* setup_wal_archiving call changed it is still held by one of the backup
\* copies, whatever calls and operator edits followed.
C14_EveryPriorVersionKept == premut \subseteq Range(baks)

\* ------------------------------------------------ the server's archive hook
\* archive_command, run by the server for each completed segment: it copies
\* segment number n, under its own name, into backup_root/wal_archive
ArchiveSegment ==
    /\ Len(wal) < MaxSegments
    /\ wal' = Append(wal, Len(wal) + 1)
    /\ UNCHANGED << clock, base, pgdata, server, rvars, bvars, cvars, hvars >>

ArchInit ==
    /\ clock = ClockStart
    /\ base \in CatalogsOf({Complete})
    /\ pgdata = OrigData
    /\ server = "running"
    /\ pgdata0 = OrigData
    /\ server0 = "running"
    /\ RecoveryIdle
    /\ BackupInit
    /\ conf = << >>
    /\ QuietInit

\* the hook runs at any time, between any two steps of either tool; a
\* recovery is run on its own or after the backup run, if that pruned
ArchNext ==
    \/ ArchiveSegment
    \/ rpc = "idle" /\ bpc # "exited" /\ Next
    \/ /\ bpc = "idle" \/ (bpc = "exited" /\ su = "ok" /\ pr.to_delete # << >>)
       /\ RecNext

ArchSpec == ArchInit /\ [][ArchNext]_vars

\* C15: no step deletes or alters a segment of the archive; the only steps
\* that change the archive are the hook's, which add a segment and change
\* nothing a backup or recovery run reads or writes.
C15_ArchiveAppendOnly ==
    [][/\ Len(wal') >= Len(wal)
       /\ SubSeq(wal', 1, Len(wal)) = wal
       /\ wal' # wal =>
              UNCHANGED << clock, base, pgdata, server, rvars, bvars, cvars,
                           hvars >>]_vars

C15_Witness ==
    /\ Len(wal) = MaxSegments
    /\ su = "ok"
    /\ bk.result = "ok"
    /\ pr.result = "ok"
    /\ pr.to_delete # << >>
    /\ rpc = "DONE"

\* ------------------------------------------- snapshot directories: calls
\* one call of PostgresBackup.create_backup_directory; FileExistsError on a
\* plain file of that name leaves base as it is
CreateBackupDirectory ==
    /\ bpc = "idle"
    /\ rpc = "idle"
    /\ Len(calls) < MaxCalls
    /\ LET r == create_backup_directory(base, clock)
       IN  /\ base' = r.base
           /\ calls' = Append(calls, [dir |-> r.dir, at |-> clock,
                                      raised |-> r.raised])
    /\ UNCHANGED << clock, pgdata, server, rvars, bvars, cvars, wal, sw,
                    premut >>

CatInit ==
    /\ clock = ClockStart
    /\ base \in CatalogsOf(ToolContents)
    /\ pgdata = OrigData
    /\ server = "running"
    /\ pgdata0 = OrigData
    /\ server0 = "running"
    /\ RecoveryIdle
    /\ BackupInit
    /\ conf = << >>
    /\ QuietInit

CatNext ==
    \/ Tick
    \/ CreateBackupDirectory

CatSpec == CatInit /\ [][CatNext]_vars

\* the calls so far were made at distinct seconds into an empty catalog
DistinctSeconds ==
    /\ base0 = << >>
    /\ calls # << >>
    /\ \A i, j \in 1 .. Len(calls) : i # j => calls[i].at # calls[j].at

\* C18: after N create_backup_directory calls at distinct seconds into an
\* empty catalog, the sorted listing of base is the directories in the
\* order they were created and find_latest_backup answers the Nth.
C18_ListingInCreationOrder ==
    DistinctSeconds
    => /\ sorted(DOMAIN base) = [i \in 1 .. Len(calls) |-> calls[i].dir]
       /\ find_latest_backup(base) = calls[Len(calls)].dir
       /\ \A i \in 1 .. Len(calls) : base[calls[i].dir].kind = "dir"

C18_Witness ==
    /\ DistinctSeconds
    /\ Len(calls) = 3
    /\ calls[1].dir[1] # calls[3].dir[1]
    /\ find_latest_backup(base) = strftime(calls[3].at)

====
